---- MODULE Spec2Model ----
(***************************************************************************)
(* Campus Life Planner: the task collection (state.js), its persistence    *)
(* and JSON import/export (Storage.js), the field validators               *)
(* (validators.js) and the controller's handlers (main.js).                *)
(*                                                                         *)
(* A JavaScript string is modelled as a sequence of one-character strings, *)
(* so that trim() and the regular expressions are computed character by    *)
(* character.                                                              *)
(***************************************************************************)
EXTENDS Integers, Sequences, FiniteSets, TLC

VARIABLES
    tasks,          \* state.tasks
    stored,         \* localStorage['campus-planner:tasks'] (a JSON text, or absent)
    editingTaskId,  \* state.editingTaskId
    nextId,         \* number of ids generateId has produced so far, plus one
    now,            \* the wall clock read by new Date()
    engine,         \* the JavaScript engine's Date.parse flavour
    settingsStatus, \* the message shown in the settings-status element
    currentPage,    \* state.currentPage
    shownPage,      \* the page section that is active in the document
    formMode,       \* what the task form shows: a new task ("add") or a populated one ("edit")
    searchPattern,  \* state.searchPattern: null or a RegExp with its lastIndex
    sortBy,         \* state.sortBy
    settings,       \* state.settings
    storedSettings, \* localStorage['campus-planner:settings'] (a JSON text, or absent)
    arg,            \* input of the pure function under test
    res             \* its result

vars == <<tasks, stored, editingTaskId, nextId, now, engine, settingsStatus, currentPage,
          shownPage, formMode, searchPattern, sortBy, settings, storedSettings, arg, res>>

pageVars == <<currentPage, shownPage, formMode>>
searchVars == <<searchPattern, sortBy>>
settingsVars == <<settings, storedSettings>>

(***************************************************************************)
(* Bounds of the model                                                     *)
(***************************************************************************)
MaxLen == 3        \* longest title enumerated character by character
MaxTasks == 2      \* most tasks held at once
MaxTime == 2       \* last clock value
MaxAdds == MaxTasks + 1     \* most ids generated in one run
MaxImport == MaxTasks       \* most records in an import file

(***************************************************************************)
(* Characters and strings                                                  *)
(***************************************************************************)
EmptyStr == <<>>

\* WhiteSpace and LineTerminator of ECMAScript, as far as the model's
\* alphabet goes: \s, trim() and \S all use this one class.
IsWS(c) == c \in {" ", "\t", "\n"}

\* `.` without the s flag matches anything but a line terminator.
IsLineTerminator(c) == c = "\n"

Digits == {"0", "1", "2", "3", "4", "5", "6", "7", "8", "9"}
LowerLetters == {"a", "b", "h", "w", "x"}
UpperLetters == {"A", "B"}

IsDigit(c) == c \in Digits
IsLetter(c) == c \in LowerLetters \cup UpperLetters

\* \w is [A-Za-z0-9_]
IsWordChar(c) == IsLetter(c) \/ IsDigit(c) \/ c = "_"

\* case folding of the i flag
Fold(c) == IF c = "A" THEN "a" ELSE IF c = "B" THEN "b" ELSE c

RECURSIVE TrimStart(_)
TrimStart(s) == IF s # EmptyStr /\ IsWS(Head(s)) THEN TrimStart(Tail(s)) ELSE s

RECURSIVE TrimEnd(_)
TrimEnd(s) == IF s # EmptyStr /\ IsWS(s[Len(s)]) THEN TrimEnd(SubSeq(s, 1, Len(s) - 1)) ELSE s

\* String.prototype.trim
Trim(s) == TrimEnd(TrimStart(s))

\* all strings over alphabet cs of length at most n
RECURSIVE StringsUpTo(_, _)
StringsUpTo(cs, n) ==
    IF n = 0 THEN {EmptyStr}
    ELSE LET shorter == StringsUpTo(cs, n - 1)
         IN  shorter \cup {Append(s, c) : s \in {t \in shorter : Len(t) = n - 1}, c \in cs}

(***************************************************************************)
(* validators.js                                                           *)
(***************************************************************************)

\* PATTERNS.title.regex  /^\S(?:.*\S)?$/
TitleRegex(s) ==
    /\ Len(s) >= 1
    /\ ~IsWS(s[1])
    /\ ~IsWS(s[Len(s)])
    /\ \A i \in 2..(Len(s) - 1) : ~IsLineTerminator(s[i])

\* /\s{2,}/.test(value)
HasWhitespaceRun(s) == \E i \in 1..(Len(s) - 1) : IsWS(s[i]) /\ IsWS(s[i + 1])

\* PATTERNS.title.test
TitleTest(value) ==
    IF Trim(value) = EmptyStr THEN FALSE
    ELSE IF value # Trim(value) THEN FALSE
    ELSE IF HasWhitespaceRun(value) THEN FALSE
    ELSE TitleRegex(value)

AllDigits(s) == \A i \in 1..Len(s) : IsDigit(s[i])

\* (0|[1-9]\d*)
IsIntegerPart(s) ==
    /\ Len(s) >= 1
    /\ AllDigits(s)
    /\ (s[1] = "0" => Len(s) = 1)

\* (\.\d{1,2})?
IsFractionPart(s) ==
    \/ s = EmptyStr
    \/ /\ Len(s) \in {2, 3}
       /\ s[1] = "."
       /\ AllDigits(SubSeq(s, 2, Len(s)))

\* PATTERNS.duration.regex  /^(0|[1-9]\d*)(\.\d{1,2})?$/
\* (the integer part is the longest prefix of digits, as the fraction
\* starts with a dot)
DurationRegex(s) ==
    LET nondigit == {i \in 1..Len(s) : ~IsDigit(s[i])}
        k == IF nondigit = {} THEN Len(s)
             ELSE (CHOOSE i \in nondigit : \A j \in nondigit : i <= j) - 1
    IN  /\ IsIntegerPart(SubSeq(s, 1, k))
        /\ IsFractionPart(SubSeq(s, k + 1, Len(s)))

\* PATTERNS.duration.test
DurationTest(value) == DurationRegex(value)

DigitVal(c) ==
    CASE c = "0" -> 0 [] c = "1" -> 1 [] c = "2" -> 2 [] c = "3" -> 3 [] c = "4" -> 4
      [] c = "5" -> 5 [] c = "6" -> 6 [] c = "7" -> 7 [] c = "8" -> 8 [] c = "9" -> 9

RECURSIVE DecimalVal(_)
DecimalVal(s) ==
    IF s = EmptyStr THEN 0
    ELSE 10 * DecimalVal(SubSeq(s, 1, Len(s) - 1)) + DigitVal(s[Len(s)])

\* PATTERNS.date.regex  /^\d{4}-(0[1-9]|1[0-2])-(0[1-9]|[12]\d|3[01])$/
DateRegex(s) ==
    /\ Len(s) = 10
    /\ AllDigits(SubSeq(s, 1, 4))
    /\ s[5] = "-"
    /\ \/ s[6] = "0" /\ s[7] \in Digits \ {"0"}
       \/ s[6] = "1" /\ s[7] \in {"0", "1", "2"}
    /\ s[8] = "-"
    /\ \/ s[9] = "0" /\ s[10] \in Digits \ {"0"}
       \/ s[9] \in {"1", "2"} /\ s[10] \in Digits
       \/ s[9] = "3" /\ s[10] \in {"0", "1"}

IsLeapYear(y) == (y % 4 = 0 /\ y % 100 # 0) \/ y % 400 = 0

DaysInMonth(y, m) ==
    IF m = 2 THEN (IF IsLeapYear(y) THEN 29 ELSE 28)
    ELSE IF m \in {4, 6, 9, 11} THEN 30 ELSE 31

\* the day named by a string of the YYYY-MM-DD shape exists in the calendar
IsCalendarDate(s) ==
    DecimalVal(SubSeq(s, 9, 10)) <= DaysInMonth(DecimalVal(SubSeq(s, 1, 4)), DecimalVal(SubSeq(s, 6, 7)))

\* new Date(value) is a valid date, for a value of the YYYY-MM-DD shape with
\* month 01-12 and day 01-31. ECMAScript leaves a date string with an
\* out-of-range element to the implementation: V8 accepts any day up to 31
\* and rolls it over into the next month, SpiderMonkey and JavaScriptCore
\* answer Invalid Date.
Engines == {"rollover", "strict"}
DateParses(value, eng) == eng = "rollover" \/ IsCalendarDate(value)

\* PATTERNS.date.test
DateTest(value, eng) ==
    IF ~DateRegex(value) THEN FALSE
    ELSE DateParses(value, eng)

\* PATTERNS.tag.regex  /^[A-Za-z]+(?:[ -][A-Za-z]+)*$/
TagRegex(s) ==
    /\ Len(s) >= 1
    /\ IsLetter(s[1])
    /\ IsLetter(s[Len(s)])
    /\ \A i \in 1..Len(s) : IsLetter(s[i]) \/ s[i] \in {" ", "-"}
    /\ \A i \in 1..(Len(s) - 1) : IsLetter(s[i]) \/ IsLetter(s[i + 1])

\* PATTERNS.tag.test
TagTest(value) == TagRegex(value)

\* \b at the gap before position i (1..Len+1)
WordBoundary(s, i) ==
    LET before == i > 1 /\ IsWordChar(s[i - 1])
        after == i <= Len(s) /\ IsWordChar(s[i])
    IN  before # after

\* PATTERNS.duplicateWord.regex  /\b(\w+)\s+\1\b/i  finds a match:
\* the group is s[i..j], the white space s[j+1..k], the back-reference
\* s[k+1..k+n]
DuplicateWordRegex(s) ==
    \E i \in 1..Len(s) : \E j \in i..Len(s) : \E k \in (j + 1)..Len(s) :
        LET n == j - i + 1
        IN  /\ WordBoundary(s, i)
            /\ \A p \in i..j : IsWordChar(s[p])
            /\ \A p \in (j + 1)..k : IsWS(s[p])
            /\ k + n <= Len(s)
            /\ \A p \in 1..n : Fold(s[k + p]) = Fold(s[i + p - 1])
            /\ WordBoundary(s, k + n + 1)

\* PATTERNS.duplicateWord.test
DuplicateWordTest(value) == ~DuplicateWordRegex(value)

TitleMessage == "No leading/trailing spaces allowed. Must contain at least one non-space character."
DurationMessage == "Enter a valid number (e.g., 30 or 45.5)"
DateMessage == "Enter date in YYYY-MM-DD format (e.g., 2025-10-20)"
TagMessage == "Use only letters, spaces, and hyphens (e.g., Study-Group, Homework)"
DuplicateWordMessage == "Duplicate word detected"

PatternNames == {"title", "duration", "date", "tag", "duplicateWord"}

PatternTest(field, value, eng) ==
    CASE field = "title" -> TitleTest(value)
      [] field = "duration" -> DurationTest(value)
      [] field = "date" -> DateTest(value, eng)
      [] field = "tag" -> TagTest(value)
      [] field = "duplicateWord" -> DuplicateWordTest(value)

PatternMessage(field) ==
    CASE field = "title" -> TitleMessage
      [] field = "duration" -> DurationMessage
      [] field = "date" -> DateMessage
      [] field = "tag" -> TagMessage
      [] field = "duplicateWord" -> DuplicateWordMessage

\* validateField(field, value)
validateField(field, value, eng) ==
    IF field \notin PatternNames THEN [valid |-> TRUE, message |-> ""]
    ELSE LET valid == PatternTest(field, value, eng)
         IN  [valid |-> valid, message |-> IF valid THEN "" ELSE PatternMessage(field)]

\* validateTask stopping at the first field that fails
validateTaskFirstError(task, eng) ==
    LET order == <<"title", "duration", "dueDate", "tag">>
        fails(f) ==
            CASE f = "title" -> ~TitleTest(task.title) \/ ~DuplicateWordTest(task.title)
              [] f = "duration" -> ~DurationTest(task.duration)
              [] f = "dueDate" -> ~DateTest(task.dueDate, eng)
              [] f = "tag" -> ~TagTest(task.tag)
        failing == {i \in 1..4 : fails(order[i])}
        keys == IF failing = {} THEN {}
                ELSE {order[CHOOSE i \in failing : \A j \in failing : i <= j]}
        errors == [f \in keys |->
                     CASE f = "title" -> IF ~DuplicateWordTest(task.title)
                                         THEN DuplicateWordMessage ELSE TitleMessage
                       [] f = "duration" -> DurationMessage
                       [] f = "dueDate" -> DateMessage
                       [] f = "tag" -> TagMessage]
    IN  [valid |-> keys = {}, errors |-> errors]

\* validateTask(task): errors is the map from the failing fields to their
\* messages
validateTask(task, eng) ==
    LET titleValidation == validateField("title", task.title, eng)
        dupValidation == validateField("duplicateWord", task.title, eng)
        durationValidation == validateField("duration", task.duration, eng)
        dateValidation == validateField("date", task.dueDate, eng)
        tagValidation == validateField("tag", task.tag, eng)
        keys == {f \in {"title"} : ~titleValidation.valid \/ ~dupValidation.valid}
                \cup {f \in {"duration"} : ~durationValidation.valid}
                \cup {f \in {"dueDate"} : ~dateValidation.valid}
                \cup {f \in {"tag"} : ~tagValidation.valid}
        errors == [f \in keys |->
                     CASE f = "title" -> IF ~dupValidation.valid THEN dupValidation.message
                                         ELSE titleValidation.message
                       [] f = "duration" -> durationValidation.message
                       [] f = "dueDate" -> dateValidation.message
                       [] f = "tag" -> tagValidation.message]
    IN  [valid |-> DOMAIN errors = {}, errors |-> errors]

\* validateFormField(name) of main.js, on the raw value of the input
validateFormField(name, raw, eng) == validateField(name, Trim(raw), eng).valid

\* the taskData handleFormSubmit reads from the form
FormTaskData(form) ==
    [title |-> Trim(form.title), duration |-> Trim(form.duration),
     dueDate |-> form.dueDate, tag |-> Trim(form.tag)]

(***************************************************************************)
(* Numbers. A JavaScript number is [k |-> "num", h |-> hundredths] when    *)
(* finite, and [k |-> "inf"] / [k |-> "nan"] otherwise.                    *)
(***************************************************************************)
Num(h) == [k |-> "num", h |-> h]
Infinity == [k |-> "inf", h |-> 0]
NaN == [k |-> "nan", h |-> 0]

\* 2^1024 - 2^970, the least integer that rounds to Infinity as a double
MaxDoubleDigits ==
    <<"1", "7", "9", "7", "6", "9", "3", "1", "3", "4", "8", "6", "2", "3", "1", "5", "8", "0", "7", "9",
      "3", "7", "2", "8", "9", "7", "1", "4", "0", "5", "3", "0", "3", "4", "1", "5", "0", "7", "9", "9",
      "3", "4", "1", "3", "2", "7", "1", "0", "0", "3", "7", "8", "2", "6", "9", "3", "6", "1", "7", "3",
      "7", "7", "8", "9", "8", "0", "4", "4", "4", "9", "6", "8", "2", "9", "2", "7", "6", "4", "7", "5",
      "0", "9", "4", "6", "6", "4", "9", "0", "1", "7", "9", "7", "7", "5", "8", "7", "2", "0", "7", "0",
      "9", "6", "3", "3", "0", "2", "8", "6", "4", "1", "6", "6", "9", "2", "8", "8", "7", "9", "1", "0",
      "9", "4", "6", "5", "5", "5", "5", "4", "7", "8", "5", "1", "9", "4", "0", "4", "0", "2", "6", "3",
      "0", "6", "5", "7", "4", "8", "8", "6", "7", "1", "5", "0", "5", "8", "2", "0", "6", "8", "1", "9",
      "0", "8", "9", "0", "2", "0", "0", "0", "7", "0", "8", "3", "8", "3", "6", "7", "6", "2", "7", "3",
      "8", "5", "4", "8", "4", "5", "8", "1", "7", "7", "1", "1", "5", "3", "1", "7", "6", "4", "4", "7",
      "5", "7", "3", "0", "2", "7", "0", "0", "6", "9", "8", "5", "5", "5", "7", "1", "3", "6", "6", "9",
      "5", "9", "6", "2", "2", "8", "4", "2", "9", "1", "4", "8", "1", "9", "8", "6", "0", "8", "3", "4",
      "9", "3", "6", "4", "7", "5", "2", "9", "2", "7", "1", "9", "0", "7", "4", "1", "6", "8", "4", "4",
      "4", "3", "6", "5", "5", "1", "0", "7", "0", "4", "3", "4", "2", "7", "1", "1", "5", "5", "9", "6",
      "9", "9", "5", "0", "8", "0", "9", "3", "0", "4", "2", "8", "8", "0", "1", "7", "7", "9", "0", "4",
      "1", "7", "4", "4", "9", "7", "7", "9", "2">>

\* a >= b for digit strings of equal length
DigitsGE(a, b) ==
    \/ a = b
    \/ \E i \in 1..Len(a) :
        /\ \A j \in 1..(i - 1) : a[j] = b[j]
        /\ DigitVal(a[i]) > DigitVal(b[i])

\* the decimal integer part overflows the double range
Overflows(intPart) ==
    \/ Len(intPart) > Len(MaxDoubleDigits)
    \/ Len(intPart) = Len(MaxDoubleDigits) /\ DigitsGE(intPart, MaxDoubleDigits)

\* parseFloat(s) for a string of the duration grammar (the only strings
\* handleFormSubmit passes to it); the rounding of long finite digit strings
\* to 53 bits is not modelled.
ParseFloat(s) ==
    IF ~DurationRegex(s) THEN NaN
    ELSE LET dot == {i \in 1..Len(s) : s[i] = "."}
             k == IF dot = {} THEN Len(s) ELSE (CHOOSE i \in dot : TRUE) - 1
             intPart == SubSeq(s, 1, k)
             frac == SubSeq(s, k + 2, Len(s))
             fracH == IF Len(frac) = 0 THEN 0
                      ELSE IF Len(frac) = 1 THEN 10 * DecimalVal(frac)
                      ELSE DecimalVal(frac)
         IN  IF Overflows(intPart) THEN Infinity
             ELSE Num(100 * DecimalVal(intPart) + fracH)

(***************************************************************************)
(* Storage.js: JSON texts, import and export                               *)
(*                                                                         *)
(* A JSON text is [parses |-> FALSE] when JSON.parse throws on it, and     *)
(* [parses |-> TRUE, data |-> d] otherwise, d being the parsed value:      *)
(* [array |-> FALSE] for a value that is no array, and                     *)
(* [array |-> TRUE, items |-> <<...>>] for an array. An item is NullItem   *)
(* (JSON null) or a record of the seven task fields. A field that is       *)
(* absent, null, "" or 0 (all falsy) is the empty string, the empty id or  *)
(* the time stamp 0. A duration is a number, JSON null ("null") or a JSON  *)
(* string ("str").                                                         *)
(***************************************************************************)
NullItem == [null |-> TRUE]
NoId == <<>>
NoTime == 0
JsonNull == [k |-> "null", h |-> 0]
JsonString == [k |-> "str", h |-> 0]

\* typeof v === 'number'
IsNumber(v) == v.k \in {"num", "inf", "nan"}

\* JSON.stringify of a number: NaN and the infinities are written as null
StringifyNumber(v) == IF v.k \in {"inf", "nan"} THEN JsonNull ELSE v

StringifyTask(t) == [t EXCEPT !.duration = StringifyNumber(t.duration)]

\* JSON.stringify(tasks)
JsonStringify(ts) ==
    [parses |-> TRUE, data |-> [array |-> TRUE, items |-> [i \in 1..Len(ts) |-> StringifyTask(ts[i])]]]

\* the checks validateImportData makes on each record, in this order
ImportChecks == <<"id", "title", "duration", "dueDate", "tag", "createdAt", "updatedAt">>

\* the check of one field of one record fails
ImportCheckFails(task, check) ==
    CASE check = "id" -> task.id = NoId
      [] check = "title" -> task.title = EmptyStr
      [] check = "duration" -> ~IsNumber(task.duration)
      [] check = "dueDate" -> task.dueDate = EmptyStr
      [] check = "tag" -> task.tag = EmptyStr
      [] check = "createdAt" -> task.createdAt = NoTime
      [] check = "updatedAt" -> task.updatedAt = NoTime

ImportMessage(check) ==
    IF check = "duration" THEN "invalid duration" ELSE "missing"

\* validateImportData without the dueDate check
validateImportDataNoDueDate(data) ==
    IF ~data.array THEN [threw |-> FALSE, valid |-> FALSE, errors |-> <<"Data must be an array">>]
    ELSE IF \E i \in 1..Len(data.items) : data.items[i] = NullItem
    THEN [threw |-> TRUE, valid |-> FALSE, errors |-> <<>>]
    ELSE LET n == Len(ImportChecks)
             cand == [k \in 1..(n * Len(data.items)) |->
                        [index |-> (k - 1) \div n, check |-> ImportChecks[((k - 1) % n) + 1]]]
             errors == SelectSeq(cand, LAMBDA c :
                          c.check # "dueDate" /\ ImportCheckFails(data.items[c.index + 1], c.check))
         IN  [threw |-> FALSE, valid |-> Len(errors) = 0, errors |-> errors]

\* validateImportData(data). Reading a property of a null item throws a
\* TypeError, which leaves the function (threw); otherwise errors lists, in
\* order, the failing checks as [index, check] ("Task <index>: missing
\* <check>" / "Task <index>: invalid duration").
validateImportData(data) ==
    IF ~data.array THEN [threw |-> FALSE, valid |-> FALSE, errors |-> <<"Data must be an array">>]
    ELSE IF \E i \in 1..Len(data.items) : data.items[i] = NullItem
    THEN [threw |-> TRUE, valid |-> FALSE, errors |-> <<>>]
    ELSE LET n == Len(ImportChecks)
             cand == [k \in 1..(n * Len(data.items)) |->
                        [index |-> (k - 1) \div n, check |-> ImportChecks[((k - 1) % n) + 1]]]
             errors == SelectSeq(cand, LAMBDA c : ImportCheckFails(data.items[c.index + 1], c.check))
         IN  [threw |-> FALSE, valid |-> Len(errors) = 0, errors |-> errors]

\* exportToJSON(tasks)
exportToJSON(ts) == JsonStringify(ts)

NoData == [array |-> FALSE]

\* importFromJSON(jsonString)
importFromJSON(jsonString) ==
    IF ~jsonString.parses
    THEN [success |-> FALSE, data |-> NoData, errors |-> <<"Invalid JSON format">>]
    ELSE LET data == jsonString.data
             validation == validateImportData(data)
         IN  IF validation.threw
             THEN [success |-> FALSE, data |-> NoData, errors |-> <<"Invalid JSON format">>]
             ELSE IF ~validation.valid
             THEN [success |-> FALSE, data |-> NoData, errors |-> validation.errors]
             ELSE [success |-> TRUE, data |-> data, errors |-> <<>>]

\* loadTasks(): the stored texts of the model are unparseable or arrays
loadTasks(st) ==
    IF ~st.present THEN <<>>
    ELSE IF ~st.text.parses THEN <<>>
    ELSE st.text.data.items

(***************************************************************************)
(* state.js                                                                *)
(***************************************************************************)
NoEditing == NoId

\* generateId(): 'task_' + Date.now() + '_' + nine random characters; the
\* n-th call is taken to yield an id no other call and no import file has
generateId(n) == <<"task", n>>

\* state.tasks.findIndex(task => task.id === id); 0 stands for -1
findIndex(ts, id) ==
    LET hits == {i \in 1..Len(ts) : ts[i].id = id}
    IN  IF hits = {} THEN 0 ELSE CHOOSE i \in hits : \A j \in hits : i <= j

\* getTaskById(id) finds a task
hasTask(ts, id) == findIndex(ts, id) # 0

\* the task addTask builds from taskData
newTask(taskData, id, t) ==
    [id |-> id, title |-> Trim(taskData.title), duration |-> taskData.duration,
     dueDate |-> taskData.dueDate, tag |-> Trim(taskData.tag), createdAt |-> t, updatedAt |-> t]

\* state.tasks after addTask(taskData)
addTask(ts, taskData, id, t) == Append(ts, newTask(taskData, id, t))

\* updateTask moving the updated task to the end of the collection
updateTaskMoveToEnd(ts, id, updates, t) ==
    LET index == findIndex(ts, id)
    IN  IF index = 0 THEN ts
        ELSE Append([i \in 1..(Len(ts) - 1) |-> IF i < index THEN ts[i] ELSE ts[i + 1]],
                    [ts[index] EXCEPT !.title = updates.title, !.duration = updates.duration,
                                      !.dueDate = updates.dueDate, !.tag = updates.tag,
                                      !.updatedAt = t])

\* state.tasks after updateTask(id, updates), updates holding title,
\* duration, dueDate and tag
updateTask(ts, id, updates, t) ==
    LET index == findIndex(ts, id)
    IN  IF index = 0 THEN ts
        ELSE [ts EXCEPT ![index] =
                [@ EXCEPT !.title = updates.title, !.duration = updates.duration,
                          !.dueDate = updates.dueDate, !.tag = updates.tag, !.updatedAt = t]]

NullTask == [null |-> TRUE]

\* the value updateTask(id, updates) returns
updateTaskReturn(ts, id, updates, t) ==
    IF findIndex(ts, id) = 0 THEN NullTask
    ELSE updateTask(ts, id, updates, t)[findIndex(ts, id)]

\* state.tasks after deleteTask(id)
deleteTask(ts, id) == SelectSeq(ts, LAMBDA task : task.id # id)

\* a saveTasks whose failed write loses the text stored before
saveTasksLosingOnFailure(st, ts, ok) == IF ok THEN [present |-> TRUE, text |-> JsonStringify(ts)] ELSE [present |-> FALSE]

\* localStorage after saveTasks(tasks): setItem may throw (quota), and then
\* the stored text stays
saveTasks(st, ts, ok) == IF ok THEN [present |-> TRUE, text |-> JsonStringify(ts)] ELSE st

\* the settings state.js starts with and loadSettings() falls back to
DefaultSettings == [timeUnit |-> "minutes", weeklyCap |-> Num(4000)]

\* JSON.stringify(settings)
StringifySettings(st) ==
    [parses |-> TRUE, data |-> [st EXCEPT !.weeklyCap = StringifyNumber(st.weeklyCap)]]

\* loadSettings(): the stored texts of the model are unparseable or objects
loadSettings(st) ==
    IF ~st.present THEN DefaultSettings
    ELSE IF ~st.text.parses THEN DefaultSettings
    ELSE st.text.data

\* localStorage after saveSettings(settings)
saveSettings(st, sets, ok) == IF ok THEN [present |-> TRUE, text |-> StringifySettings(sets)] ELSE st

\* state.settings after updateSettings(updates), updates a set of
\* <<key, value>> pairs
updateSettings(sets, updates) ==
    [k \in DOMAIN sets |-> IF \E u \in updates : u[1] = k
                           THEN (CHOOSE u \in updates : u[1] = k)[2] ELSE sets[k]]

\* the page sections of the document
Pages == {"dashboard", "tasks", "add-task", "settings"}

\* state.searchPattern and state.sortBy as state.js starts with them
NullPattern == [null |-> TRUE]
DefaultSortBy == "date-desc"

\* the parts of the state that no storage holds, as the application starts
\* with them
FreshSession ==
    /\ currentPage = "dashboard"
    /\ shownPage = "dashboard"
    /\ formMode = "add"
    /\ searchPattern = NullPattern
    /\ sortBy = DefaultSortBy

(***************************************************************************)
(* Inputs of the validators                                                *)
(***************************************************************************)
TitleChars == {"a", "A", "b", " ", "\t", "\n"}
TitleInputs == StringsUpTo(TitleChars, MaxLen)

GoodTitle == <<"a">>
GoodDuration == <<"3", "0">>
GoodDate == <<"2", "0", "2", "5", "-", "1", "0", "-", "2", "0">>
GoodTag == <<"h", "w">>

\* a run of 310 digits, beyond the range of a double
HugeDuration == [i \in 1..(Len(MaxDoubleDigits) + 1) |-> "9"]

DurationInputs ==
    {<<"0">>, <<"0", ".", "0", "0">>, <<"0", ".", "5">>, GoodDuration,
     <<"4", "5", ".", "5">>, <<"0", "5">>, <<" ", "3", "0">>, <<"1", ".", "2", "3", "4">>,
     <<"3", "0", ".">>, <<"x">>, EmptyStr, HugeDuration}

Years == {<<"2", "0", "2", "4">>, <<"2", "0", "2", "5">>, <<"1", "9", "0", "0">>}
Months == {<<"0", "0">>, <<"0", "1">>, <<"0", "2">>, <<"0", "4">>, <<"1", "2">>, <<"1", "3">>}
Days == {<<"0", "0">>, <<"0", "1">>, <<"2", "8">>, <<"2", "9">>, <<"3", "0">>, <<"3", "1">>,
         <<"3", "2">>}
DateInputs ==
    {y \o <<sep>> \o m \o <<sep>> \o d : y \in Years, m \in Months, d \in Days, sep \in {"-", "/"}}
    \cup {EmptyStr, <<"2", "0", "2", "5", "-", "1", "-", "2">>, GoodDate \o <<" ">>}

TagInputs ==
    {GoodTag, <<"h", "-", "w">>, <<"h", " ", "w">>, <<"h", "-", "-", "w">>, <<"h", "-">>,
     <<"9">>, <<" ", "h">>, EmptyStr}

Form(t, d, dt, tg) == [title |-> t, duration |-> d, dueDate |-> dt, tag |-> tg]

ValidateInputs ==
    {Form(t, GoodDuration, GoodDate, GoodTag) : t \in TitleInputs}
    \cup {Form(GoodTitle, GoodDuration, dt, GoodTag) : dt \in DateInputs}
    \cup {Form(t, d, dt, tg) :
            t \in {GoodTitle, <<"a", " ", "A">>, <<" ", "a", " ", "a">>, <<"a", "\n", "b">>},
            d \in DurationInputs,
            dt \in {GoodDate, <<"2", "0", "2", "5", "-", "0", "2", "-", "3", "0">>, EmptyStr},
            tg \in TagInputs}

NoResult == [op |-> "none"]

\* the form field an input of validateField comes from
FieldOf(form, field) ==
    CASE field \in {"title", "duplicateWord"} -> form.title
      [] field = "duration" -> form.duration
      [] field = "date" -> form.dueDate
      [] field = "tag" -> form.tag

BlurFields == {"title", "duration", "date", "tag"}

(***************************************************************************)
(* The validators applied to the drawn inputs                              *)
(***************************************************************************)
AppIdle ==
    /\ tasks = <<>>
    /\ stored = [present |-> FALSE]
    /\ editingTaskId = <<>>
    /\ nextId = 1
    /\ now = 1
    /\ settingsStatus = "none"
    /\ FreshSession
    /\ settings = DefaultSettings
    /\ storedSettings = [present |-> FALSE]

InitValidate ==
    /\ AppIdle
    /\ engine \in Engines
    /\ arg \in ValidateInputs
    /\ res = NoResult

\* validateField(field, value) on the raw value
ApplyValidateField(field) ==
    /\ res = NoResult
    /\ res' = [op |-> "validateField", field |-> field,
               out |-> validateField(field, FieldOf(arg, field), engine)]
    /\ UNCHANGED <<tasks, stored, editingTaskId, nextId, now, engine, settingsStatus, arg, pageVars, searchVars, settingsVars>>

\* validateTask(task) on the raw values
ApplyValidateTask ==
    /\ res = NoResult
    /\ res' = [op |-> "validateTask", out |-> validateTask(arg, engine)]
    /\ UNCHANGED <<tasks, stored, editingTaskId, nextId, now, engine, settingsStatus, arg, pageVars, searchVars, settingsVars>>

\* the blur handler of a form input: validateFormField(name)
Blur(name) ==
    /\ res = NoResult
    /\ res' = [op |-> "blur", field |-> name, out |-> validateFormField(name, FieldOf(arg, name), engine)]
    /\ UNCHANGED <<tasks, stored, editingTaskId, nextId, now, engine, settingsStatus, arg, pageVars, searchVars, settingsVars>>

\* the validation step of handleFormSubmit
SubmitValidation ==
    /\ res = NoResult
    /\ res' = [op |-> "submit", out |-> validateTask(FormTaskData(arg), engine)]
    /\ UNCHANGED <<tasks, stored, editingTaskId, nextId, now, engine, settingsStatus, arg, pageVars, searchVars, settingsVars>>

NextValidate ==
    \/ \E field \in PatternNames : ApplyValidateField(field)
    \/ ApplyValidateTask
    \/ \E name \in BlurFields : Blur(name)
    \/ SubmitValidation

SpecValidate == InitValidate /\ [][NextValidate]_vars

(***************************************************************************)
(* Properties of the validators (checked under SpecValidate)               *)
(***************************************************************************)

\* C7: for every string s, validateField("title", s) is valid if and only if
\* s is non-empty after trim, equals its own trim and holds no run of two or
\* more consecutive spaces (read here as white space, the reading that
\* favours the claim).
C7_TitleRuleIff ==
    (res.op = "validateField" /\ res.field = "title") =>
        (res.out.valid <=>
            /\ Trim(arg.title) # EmptyStr
            /\ arg.title = Trim(arg.title)
            /\ ~HasWhitespaceRun(arg.title))

\* C8: validateField("date", s) is valid if and only if s has the shape
\* YYYY-MM-DD with month 01-12 and day 01-31 and names a day that exists in
\* the calendar.
C8_DateRuleIff ==
    (res.op = "validateField" /\ res.field = "date") =>
        (res.out.valid <=> (DateRegex(arg.dueDate) /\ IsCalendarDate(arg.dueDate)))

\* C9: the check on blur and the check on submit agree on whether the title
\* is acceptable.
C9_BlurAgreesWithSubmit ==
    (res.op = "blur" /\ res.field = "title") =>
        (res.out <=> "title" \notin DOMAIN validateTask(FormTaskData(arg), engine).errors)

\* C10: validateTask's error map has an entry for title, duration, dueDate
\* or tag exactly when that field's rule fails, whatever the other fields
\* are; the title entry is the duplicate-word message when that rule fails
\* and the title message otherwise; valid is true if and only if the map is
\* empty.
C10_ValidateTaskIndependent ==
    res.op = "validateTask" =>
        LET errors == res.out.errors
            titleBad == ~TitleTest(arg.title)
            dupBad == DuplicateWordRegex(arg.title)
        IN  /\ DOMAIN errors \subseteq {"title", "duration", "dueDate", "tag"}
            /\ "title" \in DOMAIN errors <=> (titleBad \/ dupBad)
            /\ "title" \in DOMAIN errors =>
                   errors["title"] = IF dupBad THEN DuplicateWordMessage ELSE TitleMessage
            /\ "duration" \in DOMAIN errors <=> ~DurationRegex(arg.duration)
            /\ "duration" \in DOMAIN errors => errors["duration"] = DurationMessage
            /\ "dueDate" \in DOMAIN errors <=> ~DateTest(arg.dueDate, engine)
            /\ "dueDate" \in DOMAIN errors => errors["dueDate"] = DateMessage
            /\ "tag" \in DOMAIN errors <=> ~TagRegex(arg.tag)
            /\ "tag" \in DOMAIN errors => errors["tag"] = TagMessage
            /\ res.out.valid <=> (DOMAIN errors = {})

\* all four fields fail at once, the title on both of its rules
C10_Witness ==
    /\ res.op = "validateTask"
    /\ DOMAIN res.out.errors = {"title", "duration", "dueDate", "tag"}
    /\ ~TitleTest(arg.title)
    /\ res.out.errors["title"] = DuplicateWordMessage
    /\ ~res.out.valid

(***************************************************************************)
(* main.js: the handlers, on the application state. ok tells whether the   *)
(* handler's write to localStorage succeeds (setItem does not throw). The  *)
(* settings-status element is taken to show the last message given to it.  *)
(***************************************************************************)
Garbage == [parses |-> FALSE]
Absent == [present |-> FALSE]

Feb30 == <<"2", "0", "2", "5", "-", "0", "2", "-", "3", "0">>

\* the values the user submits in the form
FormInputs ==
    {Form(GoodTitle, GoodDuration, GoodDate, GoodTag),
     Form(<<" ", "b", " ">>, <<"0">>, GoodDate, GoodTag),
     Form(<<"b">>, HugeDuration, GoodDate, GoodTag),
     Form(GoodTitle, GoodDuration, Feb30, GoodTag),
     Form(<<"a", " ", "a">>, <<"x">>, GoodDate, <<"9">>)}

\* records of import files
ExtTask ==
    [id |-> <<"ext", 1>>, title |-> <<"a">>, duration |-> Num(3000), dueDate |-> GoodDate,
     tag |-> GoodTag, createdAt |-> 1, updatedAt |-> 1]

\* a record validateImportData accepts, of the same id, none of whose
\* fields a form submission would accept
OddTask ==
    [ExtTask EXCEPT !.title = <<" ", "a", " ", " ", "a">>, !.duration = Num(-500),
                    !.dueDate = <<"x">>, !.tag = <<"9">>]

\* a record for each check of validateImportData, and JSON null
BadItems ==
    {[ExtTask EXCEPT !.id = NoId],
     [ExtTask EXCEPT !.title = EmptyStr],
     [ExtTask EXCEPT !.duration = JsonString],
     [ExtTask EXCEPT !.duration = JsonNull],
     [ExtTask EXCEPT !.dueDate = EmptyStr],
     [ExtTask EXCEPT !.tag = EmptyStr],
     [ExtTask EXCEPT !.createdAt = NoTime],
     [ExtTask EXCEPT !.updatedAt = NoTime],
     [ExtTask EXCEPT !.title = EmptyStr, !.dueDate = EmptyStr],
     NullItem}

RECURSIVE SeqsUpTo(_, _)
SeqsUpTo(S, n) ==
    IF n = 0 THEN {<<>>}
    ELSE LET shorter == SeqsUpTo(S, n - 1)
         IN  shorter \cup {Append(q, x) : q \in {r \in shorter : Len(r) = n - 1}, x \in S}

ArrayText(items) == [parses |-> TRUE, data |-> [array |-> TRUE, items |-> items]]

\* the texts of the files the user may pick, among them an export of the
\* current collection
ImportFiles(ts) ==
    {Garbage, [parses |-> TRUE, data |-> [array |-> FALSE]], exportToJSON(ts)}
    \cup {ArrayText(q) : q \in SeqsUpTo({ExtTask, OddTask}, MaxImport)}
    \cup {ArrayText(Append(q, x)) : q \in SeqsUpTo({ExtTask}, MaxImport - 1), x \in BadItems}
    \cup {ArrayText(<<x>> \o q) : q \in SeqsUpTo({ExtTask}, MaxImport - 1), x \in BadItems}

\* the files picked while the application runs: those of ImportFiles whose
\* bad record, if any, lacks its dueDate or is null
PickedFiles(ts) ==
    {Garbage, [parses |-> TRUE, data |-> [array |-> FALSE]], exportToJSON(ts)}
    \cup {ArrayText(q) : q \in SeqsUpTo({ExtTask, OddTask}, MaxImport)}
    \cup {ArrayText(<<ExtTask, x>>) : x \in {[ExtTask EXCEPT !.dueDate = EmptyStr], NullItem}}

\* init(): initState() on a localStorage that holds nothing, or an
\* unparseable text under either key
Init ==
    /\ stored \in {Absent, [present |-> TRUE, text |-> Garbage]}
    /\ tasks = loadTasks(stored)
    /\ storedSettings = stored
    /\ settings = loadSettings(storedSettings)
    /\ FreshSession
    /\ editingTaskId = NoEditing
    /\ nextId = 1
    /\ now = 1
    /\ engine \in Engines
    /\ settingsStatus = "none"
    /\ arg = Form(EmptyStr, EmptyStr, EmptyStr, EmptyStr)
    /\ res = NoResult

\* time passes
Tick ==
    /\ now < MaxTime
    /\ now' = now + 1
    /\ UNCHANGED <<tasks, stored, editingTaskId, nextId, engine, settingsStatus, arg, res, pageVars, searchVars, settingsVars>>

\* handleFormSubmit(), the form rejected by validateTask: the errors are
\* shown and nothing else happens
handleFormSubmitInvalid(form) ==
    /\ ~validateTask(FormTaskData(form), engine).valid
    /\ UNCHANGED <<tasks, stored, editingTaskId, nextId, now, engine, settingsStatus, pageVars, searchVars, settingsVars>>

\* handleFormSubmit(), add mode
handleFormSubmitAdd(form, ok) ==
    LET taskData == FormTaskData(form)
    IN  /\ validateTask(taskData, engine).valid
        /\ editingTaskId = NoEditing
        /\ Len(tasks) < MaxTasks
        /\ nextId <= MaxAdds
        /\ tasks' = addTask(tasks, [taskData EXCEPT !.duration = ParseFloat(taskData.duration)],
                            generateId(nextId), now)
        /\ nextId' = nextId + 1
        /\ stored' = saveTasks(stored, tasks', ok)
        /\ editingTaskId' = NoEditing
        /\ formMode' = "add"
        /\ shownPage' = "tasks"
        /\ UNCHANGED <<now, engine, settingsStatus, currentPage, searchVars, settingsVars>>

\* handleFormSubmit(), edit mode
handleFormSubmitEdit(form, ok) ==
    LET taskData == FormTaskData(form)
    IN  /\ validateTask(taskData, engine).valid
        /\ editingTaskId # NoEditing
        /\ tasks' = updateTask(tasks, editingTaskId,
                               [taskData EXCEPT !.duration = ParseFloat(taskData.duration)], now)
        /\ stored' = IF hasTask(tasks, editingTaskId) THEN saveTasks(stored, tasks', ok) ELSE stored
        /\ editingTaskId' = NoEditing
        /\ formMode' = "add"
        /\ shownPage' = "tasks"
        /\ UNCHANGED <<nextId, now, engine, settingsStatus, currentPage, searchVars, settingsVars>>

\* reader.onload of the import input, the text rejected by importFromJSON
\* (confirm is not asked)
importRejected(text) ==
    /\ ~importFromJSON(text).success
    /\ settingsStatus' = "Import failed"
    /\ UNCHANGED <<tasks, stored, editingTaskId, nextId, now, engine, pageVars, searchVars, settingsVars>>

\* reader.onload, the text accepted and the user asked to confirm
importAccepted(text, confirmed, ok) ==
    LET result == importFromJSON(text)
    IN  /\ result.success
        /\ Len(result.data.items) <= MaxTasks
        /\ IF confirmed
           THEN /\ tasks' = result.data.items
                /\ stored' = saveTasks(stored, tasks', ok)
                /\ settingsStatus' = "Imported tasks!"
           ELSE UNCHANGED <<tasks, stored, settingsStatus>>
        /\ UNCHANGED <<editingTaskId, nextId, now, engine, pageVars, searchVars, settingsVars>>

\* a control is clicked on the page it belongs to, while that page is shown
OnPage(page) == shownPage = page

SubmitInvalid(form) == OnPage("add-task") /\ handleFormSubmitInvalid(form) /\ UNCHANGED <<arg, res>>

SubmitAdd(form) == OnPage("add-task") /\ handleFormSubmitAdd(form, TRUE) /\ UNCHANGED <<arg, res>>

SubmitEdit(form) == OnPage("add-task") /\ handleFormSubmitEdit(form, TRUE) /\ UNCHANGED <<arg, res>>

\* the click listener of the navigation links
navClicked(page) ==
    /\ currentPage' = page
    /\ shownPage' = page
    /\ formMode' = IF page = "add-task" THEN "add" ELSE formMode
    /\ UNCHANGED <<tasks, stored, editingTaskId, nextId, now, engine, settingsStatus,
                   searchVars, settingsVars>>

\* click on a link of the navigation bar
Navigate(page) == navClicked(page) /\ UNCHANGED <<arg, res>>

\* the Edit button's handler
editClicked(taskId) ==
    /\ hasTask(tasks, taskId)
    /\ editingTaskId' = taskId
    /\ formMode' = "edit"
    /\ currentPage' = "add-task"
    /\ shownPage' = "add-task"
    /\ UNCHANGED <<tasks, stored, nextId, now, engine, settingsStatus, searchVars, settingsVars>>

\* click on a task card's Edit button
EditClick(taskId) == OnPage("tasks") /\ editClicked(taskId) /\ UNCHANGED <<arg, res>>

\* the deleteTask that acts whether or not the dialog is confirmed
deleteClickedUnasked(taskId, confirmed, ok) ==
    /\ hasTask(tasks, taskId)
    /\ tasks' = deleteTask(tasks, taskId)
    /\ stored' = IF Len(tasks') < Len(tasks) THEN saveTasks(stored, tasks', ok) ELSE stored
    /\ UNCHANGED <<editingTaskId, nextId, now, engine, settingsStatus, pageVars, searchVars,
                   settingsVars>>

\* state.tasks and localStorage after the Delete button's handler
deleteClicked(taskId, confirmed, ok) ==
    /\ hasTask(tasks, taskId)
    /\ IF confirmed
       THEN /\ tasks' = deleteTask(tasks, taskId)
            /\ stored' = IF Len(tasks') < Len(tasks) THEN saveTasks(stored, tasks', ok) ELSE stored
       ELSE UNCHANGED <<tasks, stored>>
    /\ UNCHANGED <<editingTaskId, nextId, now, engine, settingsStatus, pageVars, searchVars,
                   settingsVars>>

\* click on a task card's Delete button
DeleteClick(taskId, confirmed) ==
    OnPage("tasks") /\ deleteClicked(taskId, confirmed, TRUE) /\ UNCHANGED <<arg, res>>

\* the Cancel button's handler
cancelClicked ==
    /\ editingTaskId' = NoEditing
    /\ formMode' = "add"
    /\ shownPage' = "tasks"
    /\ UNCHANGED <<tasks, stored, nextId, now, engine, settingsStatus, currentPage, searchVars,
                   settingsVars>>

\* click on the form's Cancel button
Cancel == OnPage("add-task") /\ cancelClicked /\ UNCHANGED <<arg, res>>

\* the keydown listener, on the Escape key
escapePressed ==
    /\ IF currentPage = "add-task" /\ editingTaskId # NoEditing
       THEN /\ editingTaskId' = NoEditing
            /\ formMode' = "add"
            /\ currentPage' = "tasks"
            /\ shownPage' = "tasks"
       ELSE UNCHANGED <<editingTaskId, pageVars>>
    /\ UNCHANGED <<tasks, stored, nextId, now, engine, settingsStatus, searchVars, settingsVars>>

\* the Escape key
Escape == escapePressed /\ UNCHANGED <<arg, res>>

ImportRejected(text) == OnPage("settings") /\ importRejected(text) /\ UNCHANGED <<arg, res>>

ImportAccepted(text, confirmed) ==
    OnPage("settings") /\ importAccepted(text, confirmed, TRUE) /\ UNCHANGED <<arg, res>>

\* the Clear data button's handler: clearAllData() then clearTasks(); the
\* dialog is declined, or removeItem throws (cleared is false), or the data
\* is cleared
clearClicked(confirmed, cleared, ok) ==
    /\ IF confirmed /\ cleared
       THEN /\ tasks' = <<>>
            /\ stored' = saveTasks(Absent, tasks', ok)
            /\ storedSettings' = Absent
            /\ settingsStatus' = "All data cleared!"
       ELSE UNCHANGED <<tasks, stored, storedSettings, settingsStatus>>
    /\ UNCHANGED <<editingTaskId, nextId, now, engine, settings, pageVars, searchVars>>

\* click on Clear data
ClearData(confirmed, cleared) ==
    OnPage("settings") /\ clearClicked(confirmed, cleared, TRUE) /\ UNCHANGED <<arg, res>>

\* the change listener of the time-unit select
timeUnitChanged(value, ok) ==
    /\ settings' = updateSettings(settings, {<<"timeUnit", value>>})
    /\ storedSettings' = saveSettings(storedSettings, settings', ok)
    /\ UNCHANGED <<tasks, stored, editingTaskId, nextId, now, engine, settingsStatus, pageVars,
                   searchVars>>

\* cap > 0 for the number parseFloat gives (NaN > 0 is false)
GreaterThanZero(v) == v.k = "inf" \/ (v.k = "num" /\ v.h > 0)

\* the Set cap button's handler
setCapClicked(input, ok) ==
    LET cap == ParseFloat(input)
    IN  /\ IF GreaterThanZero(cap)
           THEN /\ settings' = updateSettings(settings, {<<"weeklyCap", cap>>})
                /\ storedSettings' = saveSettings(storedSettings, settings', ok)
           ELSE UNCHANGED <<settings, storedSettings>>
        /\ UNCHANGED <<tasks, stored, editingTaskId, nextId, now, engine, settingsStatus, pageVars,
                       searchVars>>

Next ==
    \/ Tick
    \/ \E page \in Pages : Navigate(page)
    \/ \E form \in FormInputs : SubmitInvalid(form)
    \/ \E form \in FormInputs : SubmitAdd(form)
    \/ \E form \in FormInputs : SubmitEdit(form)
    \/ \E i \in 1..Len(tasks) : EditClick(tasks[i].id)
    \/ \E i \in 1..Len(tasks), confirmed \in BOOLEAN : DeleteClick(tasks[i].id, confirmed)
    \/ Cancel
    \/ Escape
    \/ \E text \in PickedFiles(tasks) : ImportRejected(text)
    \/ \E text \in PickedFiles(tasks), confirmed \in BOOLEAN : ImportAccepted(text, confirmed)
    \/ \E confirmed \in BOOLEAN, cleared \in BOOLEAN : ClearData(confirmed, cleared)

Spec == Init /\ [][Next]_vars

(***************************************************************************)
(* The import handler, the export/import round trip and the edit           *)
(* submission applied to drawn collections                                 *)
(***************************************************************************)
Task1 ==
    [id |-> generateId(1), title |-> <<"a">>, duration |-> Num(3000), dueDate |-> GoodDate,
     tag |-> GoodTag, createdAt |-> 1, updatedAt |-> 1]
Task2 == [Task1 EXCEPT !.id = generateId(2), !.title = <<"b">>, !.duration = Num(0), !.dueDate = Feb30]
Task3 == [Task1 EXCEPT !.id = generateId(3), !.duration = Infinity]

\* tasks the collection can hold: added through the form (a duration of 0,
\* and of 310 digits) or imported
TaskPool == {Task1, Task2, Task3, ExtTask, OddTask}

Collections == SeqsUpTo(TaskPool, MaxTasks)

InitImport ==
    /\ tasks \in Collections
    /\ stored = IF tasks = <<>> THEN Absent ELSE saveTasks(Absent, tasks, TRUE)
    /\ editingTaskId = NoEditing
    /\ nextId = 1
    /\ now = 1
    /\ engine = "strict"
    /\ settingsStatus = "none"
    /\ FreshSession
    /\ settings = DefaultSettings
    /\ storedSettings = Absent
    /\ arg \in ImportFiles(tasks)
    /\ res = NoResult

\* the import handler on the drawn file
ImportDrawn(confirmed) ==
    /\ res = NoResult
    /\ \/ importRejected(arg)
       \/ importAccepted(arg, confirmed, TRUE)
    /\ res' = [op |-> "import", before |-> tasks, beforeStored |-> stored,
               result |-> importFromJSON(arg)]
    /\ arg' = arg

\* importFromJSON(exportToJSON(tasks)) on the drawn collection
RoundTrip ==
    /\ res = NoResult
    /\ res' = [op |-> "roundtrip", result |-> importFromJSON(exportToJSON(tasks))]
    /\ UNCHANGED <<tasks, stored, editingTaskId, nextId, now, engine, settingsStatus, arg, pageVars, searchVars, settingsVars>>

NextImport ==
    \/ \E confirmed \in BOOLEAN : ImportDrawn(confirmed)
    \/ RoundTrip

SpecImport == InitImport /\ [][NextImport]_vars

\* ids the form may be editing: of tasks of the pool, and of no task
EditingIds == {t.id : t \in TaskPool} \cup {generateId(MaxAdds + 1)}

InitEdit ==
    /\ tasks \in Collections
    /\ stored = IF tasks = <<>> THEN Absent ELSE saveTasks(Absent, tasks, TRUE)
    /\ editingTaskId \in EditingIds
    /\ nextId = MaxAdds + 1
    /\ now \in 1..MaxTime
    /\ engine \in Engines
    /\ settingsStatus = "none"
    /\ FreshSession
    /\ settings = DefaultSettings
    /\ storedSettings = Absent
    /\ arg \in FormInputs
    /\ res = NoResult

\* handleFormSubmit() on the drawn form, in edit mode
SubmitDrawn ==
    /\ res = NoResult
    /\ \/ /\ handleFormSubmitInvalid(arg)
          /\ res' = [op |-> "invalid"]
       \/ /\ handleFormSubmitEdit(arg, TRUE)
          /\ res' = [op |-> "update", before |-> tasks, beforeStored |-> stored, id |-> editingTaskId,
                     ret |-> updateTaskReturn(tasks, editingTaskId,
                                [FormTaskData(arg) EXCEPT !.duration = ParseFloat(FormTaskData(arg).duration)],
                                now)]
    /\ arg' = arg

NextEdit == SubmitDrawn

SpecEdit == InitEdit /\ [][NextEdit]_vars

(***************************************************************************)
(* Properties of the import handler and of the round trip (SpecImport)     *)
(***************************************************************************)

\* the parsed record lacks one of the required fields or has a duration
\* that is no number (JSON null lacks them all)
RecordFails(item) ==
    \/ item = NullItem
    \/ /\ item # NullItem
       /\ \/ item.id = NoId
          \/ item.title = EmptyStr
          \/ item.dueDate = EmptyStr
          \/ item.tag = EmptyStr
          \/ item.createdAt = NoTime
          \/ item.updatedAt = NoTime
          \/ item.duration.k \notin {"num", "inf", "nan"}

\* the text is not parseable JSON, or its data fails validation
TextFails(text) ==
    \/ ~text.parses
    \/ /\ text.parses
       /\ \/ ~text.data.array
          \/ /\ text.data.array
             /\ \E i \in 1..Len(text.data.items) : RecordFails(text.data.items[i])

\* C1: an import whose text is not parseable JSON or whose data fails
\* validation returns success:false with a non-empty error list, and the
\* import handler leaves the collection, in memory and persisted, as it was;
\* no record of a rejected import is applied.
C1_RejectedImportLeavesCollection ==
    res.op = "import" =>
        /\ TextFails(arg) =>
              /\ ~res.result.success
              /\ Len(res.result.errors) > 0
        /\ ~res.result.success =>
              /\ tasks = res.before
              /\ stored = res.beforeStored

\* a file with a good record and one without dueDate was rejected while the
\* collection held tasks
C1_Witness ==
    /\ res.op = "import"
    /\ arg.parses /\ arg.data.array /\ Len(arg.data.items) = 2
    /\ arg.data.items[1] = ExtTask
    /\ arg.data.items[2] = [ExtTask EXCEPT !.dueDate = EmptyStr]
    /\ ~res.result.success
    /\ Len(res.result.errors) = 1
    /\ settingsStatus = "Import failed"
    /\ Len(tasks) > 0

\* every record has non-empty id, title, dueDate, tag, createdAt, updatedAt
\* and a duration that is a number
WellFormed(ts) ==
    \A i \in 1..Len(ts) :
        /\ ts[i].id # NoId
        /\ ts[i].title # EmptyStr
        /\ ts[i].dueDate # EmptyStr
        /\ ts[i].tag # EmptyStr
        /\ ts[i].createdAt # NoTime
        /\ ts[i].updatedAt # NoTime
        /\ ts[i].duration.k \in {"num", "inf", "nan"}

FiniteDurations(ts) == \A i \in 1..Len(ts) : ts[i].duration.k = "num"

RoundTripReproduces ==
    /\ res.result.success
    /\ res.result.data.array
    /\ res.result.data.items = tasks

\* C2: for any well-formed collection (a number as duration),
\* importFromJSON(exportToJSON(tasks)) returns success:true with data equal
\* to tasks.
C2_RoundTripAnyNumber ==
    (res.op = "roundtrip" /\ WellFormed(tasks)) => RoundTripReproduces

\* The round trip does reproduce every well-formed collection whose
\* durations are finite numbers.
RoundTripFinite ==
    (res.op = "roundtrip" /\ WellFormed(tasks) /\ FiniteDurations(tasks)) => RoundTripReproduces

\* a collection of two different tasks made the round trip
RoundTripFiniteWitness ==
    /\ res.op = "roundtrip"
    /\ Len(tasks) = 2
    /\ tasks[1] # tasks[2]
    /\ WellFormed(tasks) /\ FiniteDurations(tasks)
    /\ RoundTripReproduces

(***************************************************************************)
(* Properties of the collection (Spec)                                     *)
(***************************************************************************)

\* C3: in every reachable state no two tasks of the collection have the
\* same id.
C3_UniqueIds ==
    \A i, j \in 1..Len(tasks) : i # j => tasks[i].id # tasks[j].id

RECURSIVE NatToString(_)
NatToString(n) ==
    IF n < 10 THEN <<CHOOSE c \in Digits : DigitVal(c) = n>>
    ELSE Append(NatToString(n \div 10), CHOOSE c \in Digits : DigitVal(c) = n % 10)

\* String(v) of a number with at most two decimals
NumberToString(v) ==
    IF v.k = "inf" THEN <<"I", "n", "f", "i", "n", "i", "t", "y">>
    ELSE IF v.k = "nan" THEN <<"N", "a", "N">>
    ELSE LET a == IF v.h < 0 THEN 0 - v.h ELSE v.h
             sign == IF v.h < 0 THEN <<"-">> ELSE <<>>
             frac == a % 100
             fracStr == IF frac = 0 THEN <<>>
                        ELSE IF frac % 10 = 0 THEN <<".">> \o NatToString(frac \div 10)
                        ELSE IF frac < 10 THEN <<".", "0">> \o NatToString(frac)
                        ELSE <<".">> \o NatToString(frac)
         IN  sign \o NatToString(a \div 100) \o fracStr

\* C4: in every reachable state every task has a title that passes the
\* title rule and the duplicate-word rule, a duration that passes the
\* numeric-format rule, a dueDate that passes the date rule and a tag that
\* passes the tag rule.
C4_TasksPassRules ==
    \A i \in 1..Len(tasks) :
        /\ TitleTest(tasks[i].title)
        /\ DuplicateWordTest(tasks[i].title)
        /\ DurationTest(NumberToString(tasks[i].duration))
        /\ DateTest(tasks[i].dueDate, engine)
        /\ TagTest(tasks[i].tag)

\* the tasks whose fields all come from form submissions: those with a
\* generated id
FromForm(task) == task.id[1] = "task"

IsPositive(v) == (v.k = "num" /\ v.h > 0) \/ v.k = "inf"

\* C5: every task stored by a form submission that passed validateTask has
\* a duration strictly greater than 0.
C5_PositiveDuration ==
    \A i \in 1..Len(tasks) : FromForm(tasks[i]) => IsPositive(tasks[i].duration)

(***************************************************************************)
(* Properties of the edit submission (SpecEdit)                            *)
(***************************************************************************)

\* C6: updateTask with an id present in the collection keeps that task's
\* id, createdAt and position, refreshes its updatedAt, and leaves the
\* number of tasks and every other task unchanged; with an id not in the
\* collection it returns null and leaves the collection unchanged. (That
\* task is the first one of that id.)
C6_UpdateFrame ==
    res.op = "update" =>
        LET before == res.before
            holders == {k \in 1..Len(before) : before[k].id = res.id}
        IN  IF holders = {}
            THEN /\ res.ret = NullTask
                 /\ tasks = before
                 /\ stored = res.beforeStored
            ELSE LET index == CHOOSE k \in holders : \A m \in holders : k <= m
                 IN  /\ Len(tasks) = Len(before)
                     /\ tasks[index].id = before[index].id
                     /\ tasks[index].createdAt = before[index].createdAt
                     /\ tasks[index].updatedAt = now
                     /\ tasks[index].title = Trim(arg.title)
                     /\ \A k \in 1..Len(before) : k # index => tasks[k] = before[k]
                     /\ res.ret = tasks[index]
                     /\ stored = saveTasks(res.beforeStored, tasks, TRUE)

\* the first of two tasks was edited, at a later time than it was created
C6_Witness ==
    /\ res.op = "update"
    /\ Len(tasks) = 2
    /\ res.before[1].id = res.id
    /\ tasks[1] # res.before[1]
    /\ tasks[1].updatedAt > tasks[1].createdAt
    /\ tasks[2] = res.before[2]
    /\ tasks[2].id # res.id

(***************************************************************************)
(* Properties of the form's mode and of the editing id (Spec)              *)
(***************************************************************************)

\* C16: whenever the form shows add mode (reset, and not populated by an
\* Edit click since), a valid submit appends exactly one new task with a
\* fresh id and modifies no existing task.
C16_AddModeSubmitAppends ==
    [][\A form \in FormInputs :
          (formMode = "add" /\ (SubmitAdd(form) \/ SubmitEdit(form)))
              => /\ Len(tasks') = Len(tasks) + 1
                 /\ SubSeq(tasks', 1, Len(tasks)) = tasks
                 /\ ~hasTask(tasks, tasks'[Len(tasks')].id)]_vars

\* C17: in every reachable state editingTaskId is null or the id of a task
\* of the collection.
C17_EditingIdDenotesTask ==
    editingTaskId = NoEditing \/ hasTask(tasks, editingTaskId)

(***************************************************************************)
(* state.js: calculateStats. The clock counts parts of a day since the     *)
(* epoch (1970-01-01T00:00Z), DayParts to the day, so that an instant is   *)
(* a day and a time of day. Days are days of UTC, the zone of both         *)
(* new Date('YYYY-MM-DD') and toISOString().                               *)
(***************************************************************************)
DayParts == 2
EpochYear == 1970

\* the number of leap years before year y
LeapsBefore(y) == ((y - 1) \div 4) - ((y - 1) \div 100) + ((y - 1) \div 400)

\* the number of the first day of year y
DaysBeforeYear(y) == 365 * (y - EpochYear) + LeapsBefore(y) - LeapsBefore(EpochYear)

RECURSIVE DaysBeforeMonth(_, _)
DaysBeforeMonth(y, m) == IF m = 1 THEN 0 ELSE DaysBeforeMonth(y, m - 1) + DaysInMonth(y, m - 1)

\* new Date(value).getTime() in days, for a string of the YYYY-MM-DD shape
\* that the engine parses: a day beyond the month's last is rolled over
DayOfDate(s) ==
    LET y == DecimalVal(SubSeq(s, 1, 4))
        m == DecimalVal(SubSeq(s, 6, 7))
        d == DecimalVal(SubSeq(s, 9, 10))
    IN  DaysBeforeYear(y) + DaysBeforeMonth(y, m) + d - 1

\* new Date(dueDate) as an instant: NaN for an Invalid Date
DateValue(dueDate, eng) ==
    IF DateRegex(dueDate) /\ DateParses(dueDate, eng)
    THEN Num(DayOfDate(dueDate) * DayParts)
    ELSE NaN

Pad(n, width) ==
    LET str == NatToString(n)
    IN  [i \in 1..(width - Len(str)) |-> "0"] \o str

\* date.toISOString().split('T')[0] of an instant on day n
DateOfDay(n) ==
    LET y == CHOOSE yy \in EpochYear..(EpochYear + 200) :
                 DaysBeforeYear(yy) <= n /\ n < DaysBeforeYear(yy + 1)
        rest == n - DaysBeforeYear(y)
        m == CHOOSE mm \in 1..12 :
                 DaysBeforeMonth(y, mm) <= rest /\ rest < DaysBeforeMonth(y, mm) + DaysInMonth(y, mm)
    IN  Pad(y, 4) \o <<"-">> \o Pad(m, 2) \o <<"-">> \o Pad(rest - DaysBeforeMonth(y, m) + 1, 2)

\* a + b on numbers
NumAdd(a, b) ==
    IF a.k = "nan" \/ b.k = "nan" THEN NaN
    ELSE IF a.k = "inf" \/ b.k = "inf" THEN Infinity
    ELSE Num(a.h + b.h)

RECURSIVE SumDurations(_)
SumDurations(ts) ==
    IF ts = <<>> THEN Num(0)
    ELSE NumAdd(SumDurations(SubSeq(ts, 1, Len(ts) - 1)), ts[Len(ts)].duration)

\* Object.keys(tagCounts): the tags in the order of their first occurrence
\* (no tag of the model is an integer key, which would come first)
RECURSIVE TagKeys(_)
TagKeys(ts) ==
    IF ts = <<>> THEN <<>>
    ELSE LET front == TagKeys(SubSeq(ts, 1, Len(ts) - 1))
             tag == ts[Len(ts)].tag
         IN  IF \E i \in 1..Len(front) : front[i] = tag THEN front ELSE Append(front, tag)

\* tagCounts[tag]
TagCount(ts, tag) == Cardinality({i \in 1..Len(ts) : ts[i].tag = tag})

\* keys.reduce((a, b) => tagCounts[a] > tagCounts[b] ? a : b)
RECURSIVE ReduceTopTag(_, _)
ReduceTopTag(keys, ts) ==
    IF Len(keys) = 1 THEN keys[1]
    ELSE LET a == ReduceTopTag(SubSeq(keys, 1, Len(keys) - 1), ts)
             b == keys[Len(keys)]
         IN  IF TagCount(ts, a) > TagCount(ts, b) THEN a ELSE b

\* the marker calculateStats gives as topTag when there is no tag (a dash)
NoDataMarker == <<"dash">>

topTag(ts) == IF Len(TagKeys(ts)) > 0 THEN ReduceTopTag(TagKeys(ts), ts) ELSE NoDataMarker

\* taskDate >= sevenDaysAgo && taskDate <= now (false for an Invalid Date)
InRecentWindow(task, t, eng) ==
    LET taskDate == DateValue(task.dueDate, eng)
        sevenDaysAgo == t - 7 * DayParts
    IN  /\ taskDate.k = "num"
        /\ taskDate.h >= sevenDaysAgo
        /\ taskDate.h <= t

recentWindow(ts, t, eng) == SelectSeq(ts, LAMBDA task : InRecentWindow(task, t, eng))

\* trendData with the loop running over the 7 days before today
trendDataEndingYesterday(ts, t) ==
    [k \in 1..7 |->
        LET i == 8 - k
            dateStr == DateOfDay((t - i * DayParts) \div DayParts)
        IN  [date |-> dateStr,
             count |-> Len(SelectSeq(ts, LAMBDA task : task.dueDate = dateStr))]]

\* trendData, without the weekday labels
trendData(ts, t) ==
    [k \in 1..7 |->
        LET i == 7 - k
            dateStr == DateOfDay((t - i * DayParts) \div DayParts)
        IN  [date |-> dateStr,
             count |-> Len(SelectSeq(ts, LAMBDA task : task.dueDate = dateStr))]]

\* calculateStats() at instant t; weeklyHours is weeklyMinutes / 60
calculateStats(ts, t, eng) ==
    [total |-> Len(ts),
     totalMinutes |-> SumDurations(ts),
     topTag |-> topTag(ts),
     recentTasks |-> Len(recentWindow(ts, t, eng)),
     weeklyMinutes |-> SumDurations(recentWindow(ts, t, eng)),
     trendData |-> trendData(ts, t)]

(***************************************************************************)
(* calculateStats applied to drawn collections at drawn instants           *)
(***************************************************************************)
\* the day the statistics are asked for: the week before it spans the end
\* of February
StatDay == DayOfDate(<<"2", "0", "2", "5", "-", "0", "3", "-", "0", "3">>)

StatTask(n, tag, dueDate) ==
    [id |-> generateId(n), title |-> <<"a">>, duration |-> Num(3000), dueDate |-> dueDate,
     tag |-> tag, createdAt |-> 1, updatedAt |-> 1]

\* tasks due eight, seven and six days before that day, on it and on the
\* next day, and a task whose dueDate is no date (an import can bring one)
StatPool ==
    {StatTask(1, <<"B">>, DateOfDay(StatDay - 7)),
     StatTask(2, <<"A">>, DateOfDay(StatDay)),
     StatTask(3, <<"A">>, DateOfDay(StatDay + 1)),
     StatTask(4, <<"B">>, DateOfDay(StatDay - 8)),
     StatTask(5, <<"B">>, DateOfDay(StatDay - 6)),
     [StatTask(6, GoodTag, <<"x">>) EXCEPT !.duration = Num(4550)]}

StatCollections == SeqsUpTo(StatPool, MaxTasks)

\* midnight of that day, each later part of it, and the next midnight
StatInstants == {StatDay * DayParts + p : p \in 0..DayParts}

InitStats ==
    /\ tasks \in StatCollections
    /\ stored = IF tasks = <<>> THEN Absent ELSE saveTasks(Absent, tasks, TRUE)
    /\ editingTaskId = NoEditing
    /\ nextId = MaxAdds + 1
    /\ now \in StatInstants
    /\ engine = "strict"
    /\ settingsStatus = "none"
    /\ FreshSession
    /\ settings = DefaultSettings
    /\ storedSettings = Absent
    /\ arg = Form(EmptyStr, EmptyStr, EmptyStr, EmptyStr)
    /\ res = NoResult

\* renderStats(): calculateStats() on the collection, now
RenderStats ==
    /\ res = NoResult
    /\ res' = [op |-> "stats", before |-> tasks, out |-> calculateStats(tasks, now, engine)]
    /\ UNCHANGED <<tasks, stored, editingTaskId, nextId, now, engine, settingsStatus, arg,
                   pageVars, searchVars, settingsVars>>

NextStats == RenderStats

SpecStats == InitStats /\ [][NextStats]_vars

(***************************************************************************)
(* Properties of calculateStats (SpecStats)                                *)
(***************************************************************************)
\* the position at which a tag first occurs in the collection
FirstOccurrence(ts, tag) ==
    CHOOSE i \in 1..Len(ts) : ts[i].tag = tag /\ \A j \in 1..(i - 1) : ts[j].tag # tag

TagsOf(ts) == {ts[i].tag : i \in 1..Len(ts)}

MostFrequentTags(ts) ==
    {tag \in TagsOf(ts) : \A other \in TagsOf(ts) : TagCount(ts, tag) >= TagCount(ts, other)}

\* topTag is a tag with the highest count
TopTagIsMostFrequent ==
    (res.op = "stats" /\ tasks # <<>>) => res.out.topTag \in MostFrequentTags(tasks)

\* C12: topTag is a tag with the highest occurrence count and, among the
\* tags sharing that count, the one whose first occurrence comes earliest in
\* the collection; for an empty collection it is the no-data marker.
C12_TopTagFirstEncounteredWins ==
    res.op = "stats" =>
        IF tasks = <<>> THEN res.out.topTag = NoDataMarker
        ELSE /\ res.out.topTag \in MostFrequentTags(tasks)
             /\ \A tag \in MostFrequentTags(tasks) :
                    FirstOccurrence(tasks, res.out.topTag) <= FirstOccurrence(tasks, tag)

\* the day of the instant, and the days a dueDate names (none when it names
\* no calendar day)
DayOf(t) == t \div DayParts

IsDueIn(task, days) ==
    /\ DateRegex(task.dueDate)
    /\ IsCalendarDate(task.dueDate)
    /\ DayOfDate(task.dueDate) \in days

\* C13: recentTasks counts, and weeklyHours sums, exactly the tasks whose
\* dueDate is a calendar day from 7 days before today up to today, both
\* included, whatever the time of day.
C13_RecentWindowByCalendarDay ==
    res.op = "stats" =>
        LET due == SelectSeq(tasks, LAMBDA task : IsDueIn(task, (DayOf(now) - 7)..DayOf(now)))
        IN  /\ res.out.recentTasks = Len(due)
            /\ res.out.weeklyMinutes = SumDurations(due)

\* C14: trendData has exactly 7 entries, oldest to newest, for the 7
\* consecutive calendar days ending today, each count being the number of
\* tasks whose dueDate equals the entry's date; the collection is not
\* modified.
C14_TrendSevenDays ==
    res.op = "stats" =>
        LET trend == res.out.trendData
        IN  /\ Len(trend) = 7
            /\ \A k \in 1..7 :
                  /\ DateRegex(trend[k].date) /\ IsCalendarDate(trend[k].date)
                  /\ DayOfDate(trend[k].date) = DayOf(now) - 7 + k
                  /\ trend[k].count =
                        Cardinality({i \in 1..Len(tasks) : tasks[i].dueDate = trend[k].date})
            /\ tasks = res.before
            /\ stored = IF tasks = <<>> THEN Absent ELSE saveTasks(Absent, tasks, TRUE)

\* the trend of a collection of two tasks, one due today and one due six
\* days ago, asked for after midnight
C14_Witness ==
    /\ res.op = "stats"
    /\ now % DayParts # 0
    /\ Len(tasks) = 2
    /\ res.out.trendData[1].count = 1
    /\ res.out.trendData[7].count = 1
    /\ res.out.trendData[1].date = <<"2", "0", "2", "5", "-", "0", "2", "-", "2", "5">>

(***************************************************************************)
(* validators.js: compileRegex, and the RegExp it makes. The patterns of   *)
(* the model are written with letters, digits, parentheses and `[`: a `[`  *)
(* opens a class that nothing closes, parentheses group, and a pattern     *)
(* that compiles matches the string of its letters and digits.             *)
(***************************************************************************)
ParenDepth(p, i) ==
    Cardinality({k \in 1..i : p[k] = "("}) - Cardinality({k \in 1..i : p[k] = ")"})

\* new RegExp(input, flags) does not throw a SyntaxError
PatternSyntaxOk(input, flags) ==
    /\ flags \in {"i", "g", "gi"}
    /\ \A k \in 1..Len(input) : input[k] # "["
    /\ \A i \in 1..Len(input) : ParenDepth(input, i) >= 0
    /\ ParenDepth(input, Len(input)) = 0

\* new RegExp(input, flags)
RegExpConstructor(input, flags) ==
    IF PatternSyntaxOk(input, flags)
    THEN [threw |-> FALSE,
          value |-> [null |-> FALSE, source |-> input, flags |-> flags, lastIndex |-> 0]]
    ELSE [threw |-> TRUE, value |-> NullPattern]

\* compileRegex without the try/catch around the constructor: what the
\* constructor was given is handed on
compileRegexUnguarded(input, flags) ==
    IF input = EmptyStr THEN NullPattern
    ELSE [null |-> FALSE, source |-> input, flags |-> flags, lastIndex |-> 0]

\* compileRegex(input, flags)
compileRegex(input, flags) ==
    IF input = EmptyStr THEN NullPattern
    ELSE LET made == RegExpConstructor(input, flags)
         IN  IF made.threw THEN NullPattern ELSE made.value

IsGlobal(flags) == flags \in {"g", "gi"}
IgnoreCase(flags) == flags \in {"i", "gi"}

\* what a compiled pattern matches
Literal(source) == SelectSeq(source, LAMBDA c : c \notin {"(", ")"})

\* the pattern matches str at (0-based) index i
MatchAt(re, str, i) ==
    LET lit == Literal(re.source)
    IN  /\ i + Len(lit) <= Len(str)
        /\ \A k \in 1..Len(lit) :
               IF IgnoreCase(re.flags) THEN Fold(lit[k]) = Fold(str[i + k]) ELSE lit[k] = str[i + k]

\* regex.test(str): whether it matched, and the lastIndex it leaves. A
\* global RegExp starts at its lastIndex and leaves the end of the match
\* there, or 0 when nothing matched.
RegExpTest(re, str) ==
    LET start == IF IsGlobal(re.flags) THEN re.lastIndex ELSE 0
        hits == {i \in start..Len(str) : MatchAt(re, str, i)}
    IN  IF hits = {}
        THEN [found |-> FALSE, lastIndex |-> IF IsGlobal(re.flags) THEN 0 ELSE re.lastIndex]
        ELSE [found |-> TRUE,
              lastIndex |-> IF IsGlobal(re.flags)
                            THEN (CHOOSE i \in hits : \A j \in hits : i <= j) + Len(Literal(re.source))
                            ELSE re.lastIndex]

\* str.replace(regex, ...) of highlightMatches leaves lastIndex 0 on a
\* global RegExp
AfterReplace(re) == IF IsGlobal(re.flags) THEN [re EXCEPT !.lastIndex = 0] ELSE re

(***************************************************************************)
(* state.js: getFilteredSortedTasks; ui.js: renderTasks; main.js:          *)
(* performSearch and the sort select                                       *)
(***************************************************************************)
\* F(v), the value v computed once and then named: the intermediate results
\* of the functions below are named this way
With(v, F(_)) == CHOOSE out \in {F(x) : x \in {v}} : TRUE

\* the filter's predicate on one task: test(title) || test(tag) ||
\* test(dueDate), each test starting where the one before left lastIndex
TaskTest(re, task) ==
    With(RegExpTest(re, task.title), LAMBDA first :
        IF first.found THEN first
        ELSE With(RegExpTest([re EXCEPT !.lastIndex = first.lastIndex], task.tag), LAMBDA second :
                 IF second.found THEN second
                 ELSE RegExpTest([re EXCEPT !.lastIndex = second.lastIndex], task.dueDate)))

\* tasks.filter(...) with state.searchPattern: the tasks kept and the
\* lastIndex left
RECURSIVE FilterTasks(_, _)
FilterTasks(ts, re) ==
    IF ts = <<>> THEN [kept |-> <<>>, lastIndex |-> re.lastIndex]
    ELSE With(FilterTasks(SubSeq(ts, 1, Len(ts) - 1), re), LAMBDA front :
             With(TaskTest([re EXCEPT !.lastIndex = front.lastIndex], ts[Len(ts)]), LAMBDA r :
                 [kept |-> IF r.found THEN Append(front.kept, ts[Len(ts)]) ELSE front.kept,
                  lastIndex |-> r.lastIndex]))

Sign(n) == IF n < 0 THEN -1 ELSE IF n > 0 THEN 1 ELSE 0

\* the sign of a - b on numbers; 0 stands for a NaN, which sort() takes as 0
NumCompare(a, b) ==
    IF a.k = "nan" \/ b.k = "nan" THEN 0
    ELSE IF a.k = "inf" THEN (IF b.k = "inf" THEN 0 ELSE 1)
    ELSE IF b.k = "inf" THEN -1
    ELSE Sign(a.h - b.h)

\* collation rank of a character: white space, then other signs, digits and
\* letters, a letter's two cases together
CharRank(c) ==
    IF IsWS(c) THEN 0
    ELSE IF IsDigit(c) THEN 2 + DigitVal(c)
    ELSE IF IsLetter(c)
    THEN 12 + (CASE Fold(c) = "a" -> 0 [] Fold(c) = "b" -> 1 [] Fold(c) = "h" -> 2
                 [] Fold(c) = "w" -> 3 [] OTHER -> 4)
    ELSE 1

\* a.localeCompare(b): by rank first, and a lower-case letter before its
\* upper case where the ranks are all the same
LocaleCompare(a, b) ==
    LET n == IF Len(a) < Len(b) THEN Len(a) ELSE Len(b)
        rankDiff == {i \in 1..n : CharRank(a[i]) # CharRank(b[i])}
        caseDiff == {i \in 1..n : a[i] # b[i]}
    IN  IF rankDiff # {}
        THEN LET i == CHOOSE k \in rankDiff : \A j \in rankDiff : k <= j
             IN  Sign(CharRank(a[i]) - CharRank(b[i]))
        ELSE IF Len(a) # Len(b) THEN Sign(Len(a) - Len(b))
        ELSE IF caseDiff # {}
        THEN LET i == CHOOSE k \in caseDiff : \A j \in caseDiff : k <= j
             IN  IF a[i] \in LowerLetters THEN -1 ELSE 1
        ELSE 0

SortOptions == {"date-asc", "date-desc", "title-asc", "title-desc", "duration-asc", "duration-desc"}

\* the comparator of tasks.sort
CompareTasks(a, b, by, eng) ==
    CASE by = "date-asc" -> NumCompare(DateValue(a.dueDate, eng), DateValue(b.dueDate, eng))
      [] by = "date-desc" -> NumCompare(DateValue(b.dueDate, eng), DateValue(a.dueDate, eng))
      [] by = "title-asc" -> LocaleCompare(a.title, b.title)
      [] by = "title-desc" -> LocaleCompare(b.title, a.title)
      [] by = "duration-asc" -> NumCompare(a.duration, b.duration)
      [] by = "duration-desc" -> NumCompare(b.duration, a.duration)
      [] OTHER -> 0

\* tasks.sort(comparator): a stable sort
RECURSIVE SortTasks(_, _, _)
SortTasks(ts, by, eng) ==
    IF Len(ts) <= 1 THEN ts
    ELSE With(SortTasks(SubSeq(ts, 1, Len(ts) - 1), by, eng), LAMBDA front :
             LET last == ts[Len(ts)]
                 after == {i \in 1..Len(front) : CompareTasks(front[i], last, by, eng) > 0}
                 at == IF after = {} THEN Len(front) + 1
                       ELSE CHOOSE i \in after : \A j \in after : i <= j
             IN  SubSeq(front, 1, at - 1) \o <<last>> \o SubSeq(front, at, Len(front)))

\* getFilteredSortedTasks(): the tasks returned and state.searchPattern after
getFilteredSortedTasks(ts, re, by, eng) ==
    IF re = NullPattern THEN [tasks |-> SortTasks(ts, by, eng), pattern |-> re]
    ELSE With(FilterTasks(ts, re), LAMBDA filtered :
             [tasks |-> SortTasks(filtered.kept, by, eng),
              pattern |-> [re EXCEPT !.lastIndex = filtered.lastIndex]])

\* renderTasks(): the tasks rendered and state.searchPattern after; the
\* titles and tags of the tasks rendered go through highlightMatches
renderTasks(ts, re, by, eng) ==
    With(getFilteredSortedTasks(ts, re, by, eng), LAMBDA got :
        LET marked == \E i \in 1..Len(got.tasks) :
                          got.tasks[i].title # EmptyStr \/ got.tasks[i].tag # EmptyStr
        IN  [rendered |-> got.tasks,
             pattern |-> IF re # NullPattern /\ marked THEN AfterReplace(got.pattern)
                         ELSE got.pattern])

\* performSearch(): the search input's value and the case-sensitive box
\* give state.searchPattern, the tasks rendered and the number reported
\* ("none" when no number is)
performSearch(ts, input, caseSensitive, by, eng) ==
    With(Trim(input), LAMBDA pattern :
    With(compileRegex(pattern, IF caseSensitive THEN "g" ELSE "gi"), LAMBDA regex :
        IF pattern = EmptyStr \/ regex = NullPattern
        THEN [pattern |-> NullPattern,
              rendered |-> renderTasks(ts, NullPattern, by, eng).rendered,
              found |-> "none",
              warned |-> pattern # EmptyStr]
        ELSE With(renderTasks(ts, regex, by, eng), LAMBDA shown :
             With(getFilteredSortedTasks(ts, shown.pattern, by, eng), LAMBDA counted :
                 [pattern |-> counted.pattern,
                  rendered |-> shown.rendered,
                  found |-> Len(counted.tasks),
                  warned |-> FALSE]))))

(***************************************************************************)
(* Searching and sorting drawn collections                                 *)
(***************************************************************************)
SearchTask(n, title, tag, duration) ==
    [id |-> generateId(n), title |-> title, duration |-> duration, dueDate |-> GoodDate,
     tag |-> tag, createdAt |-> 1, updatedAt |-> 1]

SearchPool ==
    {SearchTask(1, <<"a", "b">>, GoodTag, Num(3000)),
     SearchTask(2, <<"b">>, GoodTag, Num(4550)),
     SearchTask(3, <<"A">>, <<"B">>, Num(0)),
     [SearchTask(4, <<"a">>, <<"x">>, Infinity) EXCEPT !.dueDate = <<"x">>]}

\* collections of different tasks of the pool
SearchCollections ==
    {q \in SeqsUpTo(SearchPool, MaxTasks) : \A i, j \in 1..Len(q) : i # j => q[i] # q[j]}

\* what the user types into the search input
SearchInputs ==
    {EmptyStr, <<"b">>, <<" ", "b", " ">>, <<"B">>, <<"a">>,
     <<"(", "b", ")">>, <<"(">>, <<"b", ")">>, <<"[", "a">>}

InitSearch ==
    /\ tasks \in SearchCollections
    /\ stored = IF tasks = <<>> THEN Absent ELSE saveTasks(Absent, tasks, TRUE)
    /\ editingTaskId = NoEditing
    /\ nextId = MaxAdds + 1
    /\ now = 1
    /\ engine = "strict"
    /\ settingsStatus = "none"
    /\ currentPage = "tasks"
    /\ shownPage = "tasks"
    /\ formMode = "add"
    /\ searchPattern = NullPattern
    /\ sortBy = DefaultSortBy
    /\ settings = DefaultSettings
    /\ storedSettings = Absent
    /\ arg = Form(EmptyStr, EmptyStr, EmptyStr, EmptyStr)
    /\ res = NoResult

\* the input and change listeners of the search controls: performSearch()
SearchInput(input, caseSensitive) ==
    \E out \in {performSearch(tasks, input, caseSensitive, sortBy, engine)} :
        /\ OnPage("tasks")
        /\ searchPattern' = out.pattern
        /\ res' = [op |-> "search", input |-> input, caseSensitive |-> caseSensitive,
                   rendered |-> out.rendered, found |-> out.found, warned |-> out.warned]
        /\ UNCHANGED <<tasks, stored, editingTaskId, nextId, now, engine, settingsStatus, sortBy,
                       pageVars, settingsVars, arg>>

\* the change listener of the sort select: setSortBy(value), renderTasks()
SortChange(value) ==
    \E shown \in {renderTasks(tasks, searchPattern, value, engine)} :
        /\ OnPage("tasks")
        /\ sortBy' = value
        /\ searchPattern' = shown.pattern
        /\ res' = [op |-> "sort", rendered |-> shown.rendered]
        /\ UNCHANGED <<tasks, stored, editingTaskId, nextId, now, engine, settingsStatus,
                       pageVars, settingsVars, arg>>

NextSearch ==
    \/ \E input \in SearchInputs, caseSensitive \in BOOLEAN : SearchInput(input, caseSensitive)
    \/ \E value \in SortOptions : SortChange(value)

SpecSearch == InitSearch /\ [][NextSearch]_vars

(***************************************************************************)
(* Properties of the search (SpecSearch)                                   *)
(***************************************************************************)
\* the number of times a task occurs in a list
Occurrences(ts, task) == Cardinality({i \in 1..Len(ts) : ts[i] = task})

TasksOf(ts) == {ts[i] : i \in 1..Len(ts)}

\* the list holds the tasks of the collection, each as often
SameTasks(list, ts) ==
    \A task \in TasksOf(list) \cup TasksOf(ts) : Occurrences(list, task) = Occurrences(ts, task)

\* C11: compileRegex returns null for an empty pattern and for a pattern
\* with a syntax error; when the search input holds an invalid pattern the
\* stored search pattern becomes null and the rendered list is the full
\* collection.
C11_InvalidPatternNoFilter ==
    res.op = "search" =>
        LET pattern == Trim(res.input)
            flags == IF res.caseSensitive THEN "g" ELSE "gi"
        IN  /\ compileRegex(EmptyStr, flags) = NullPattern
            /\ ~PatternSyntaxOk(pattern, flags) =>
                  /\ compileRegex(pattern, flags) = NullPattern
                  /\ searchPattern = NullPattern
                  /\ SameTasks(res.rendered, tasks)

\* an unclosed group was typed while two tasks were held: the warning is
\* shown and both tasks are rendered
C11_Witness ==
    /\ res.op = "search"
    /\ res.input = <<"(">>
    /\ res.warned
    /\ searchPattern = NullPattern
    /\ Len(tasks) = 2
    /\ Len(res.rendered) = 2

\* some part of the string matches the pattern
Contains(re, str) == \E i \in 0..Len(str) : MatchAt(re, str, i)

TaskMatches(re, task) ==
    Contains(re, task.title) \/ Contains(re, task.tag) \/ Contains(re, task.dueDate)

\* C18: with a pattern compiled by performSearch stored, the tasks rendered
\* are exactly the tasks whose title, tag or dueDate contains a match, and
\* the number reported is the number of tasks rendered.
C18_SearchFindsMatchingTasks ==
    (res.op = "search" /\ searchPattern # NullPattern) =>
        /\ \A task \in TasksOf(tasks) :
              Occurrences(res.rendered, task) =
                  IF TaskMatches(searchPattern, task) THEN Occurrences(tasks, task) ELSE 0
        /\ TasksOf(res.rendered) \subseteq TasksOf(tasks)
        /\ res.found = Len(res.rendered)

\* the number reported by performSearch is the number of tasks it rendered
FoundIsRendered ==
    (res.op = "search" /\ searchPattern # NullPattern) => res.found = Len(res.rendered)

(***************************************************************************)
(* One handler applied to a drawn state, its write to localStorage         *)
(* succeeding or failing                                                   *)
(***************************************************************************)
\* collections of different tasks whose stored text reads back as written
OpsCollections ==
    {q \in SeqsUpTo({Task1, Task2, ExtTask}, MaxTasks) : \A i, j \in 1..Len(q) : i # j => q[i] # q[j]}

\* what localStorage holds under a key: nothing, an unparseable text, or what
\* the last write left
StoredTexts(written) == {Absent, [present |-> TRUE, text |-> Garbage], written}

ChangedSettings == [timeUnit |-> "hours", weeklyCap |-> Num(500)]

\* what the user types into the weekly-cap input
CapInputs == {<<"5">>, <<"0">>, <<"x">>, HugeDuration}

TimeUnits == {"minutes", "hours"}

InitOps ==
    /\ tasks \in OpsCollections
    /\ stored \in StoredTexts(saveTasks(Absent, tasks, TRUE))
    /\ settings \in {DefaultSettings, ChangedSettings}
    /\ storedSettings \in StoredTexts(saveSettings(Absent, settings, TRUE))
    /\ editingTaskId \in {NoEditing, Task1.id}
    /\ nextId = MaxAdds
    /\ now = 1
    /\ engine = "strict"
    /\ settingsStatus = "none"
    /\ FreshSession
    /\ arg = Form(EmptyStr, EmptyStr, EmptyStr, EmptyStr)
    /\ res = NoResult

\* what is kept of the state a handler started in
OpsRecord(op, confirmed, ok, id) ==
    [op |-> op, confirmed |-> confirmed, ok |-> ok, id |-> id, before |-> tasks,
     beforeStored |-> stored, beforeSettings |-> settings,
     beforeStoredSettings |-> storedSettings, beforeEditing |-> editingTaskId]

\* initState()
initState ==
    /\ tasks' = loadTasks(stored)
    /\ settings' = loadSettings(storedSettings)
    /\ UNCHANGED <<stored, storedSettings, editingTaskId, nextId, now, engine, settingsStatus,
                   pageVars, searchVars>>

OpsInitState ==
    /\ res = NoResult
    /\ initState
    /\ res' = OpsRecord("initState", TRUE, TRUE, NoId)
    /\ arg' = arg

OpsSubmit(form, ok) ==
    /\ res = NoResult
    /\ \/ /\ handleFormSubmitInvalid(form)
          /\ res' = OpsRecord("invalid", TRUE, ok, NoId)
       \/ /\ handleFormSubmitAdd(form, ok)
          /\ res' = OpsRecord("add", TRUE, ok, generateId(nextId))
       \/ /\ handleFormSubmitEdit(form, ok)
          /\ res' = OpsRecord("edit", TRUE, ok, editingTaskId)
    /\ arg' = form

OpsDelete(taskId, confirmed, ok) ==
    /\ res = NoResult
    /\ deleteClicked(taskId, confirmed, ok)
    /\ res' = OpsRecord("delete", confirmed, ok, taskId)
    /\ arg' = arg

OpsImport(text, confirmed, ok) ==
    /\ res = NoResult
    /\ \/ /\ importRejected(text)
          /\ res' = OpsRecord("importRejected", confirmed, ok, NoId)
       \/ /\ importAccepted(text, confirmed, ok)
          /\ res' = OpsRecord("import", confirmed, ok, NoId)
    /\ arg' = arg

OpsClear(confirmed, cleared, ok) ==
    /\ res = NoResult
    /\ clearClicked(confirmed, cleared, ok)
    /\ res' = OpsRecord("clear", confirmed /\ cleared, ok, NoId)
    /\ arg' = arg

OpsTimeUnit(value, ok) ==
    /\ res = NoResult
    /\ timeUnitChanged(value, ok)
    /\ res' = OpsRecord("timeUnit", TRUE, ok, NoId)
    /\ arg' = arg

OpsSetCap(input, ok) ==
    /\ res = NoResult
    /\ setCapClicked(input, ok)
    /\ res' = OpsRecord("setCap", TRUE, ok, NoId)
    /\ arg' = arg

\* performSearch() on the typed pattern
OpsSearch(input, caseSensitive) ==
    /\ res = NoResult
    /\ searchPattern' = performSearch(tasks, input, caseSensitive, sortBy, engine).pattern
    /\ res' = OpsRecord("search", TRUE, TRUE, NoId)
    /\ UNCHANGED <<tasks, stored, editingTaskId, nextId, now, engine, settingsStatus, sortBy,
                   pageVars, settingsVars, arg>>

\* setSortBy(value), renderTasks()
OpsSort(value) ==
    /\ res = NoResult
    /\ sortBy' = value
    /\ searchPattern' = renderTasks(tasks, searchPattern, value, engine).pattern
    /\ res' = OpsRecord("sort", TRUE, TRUE, NoId)
    /\ UNCHANGED <<tasks, stored, editingTaskId, nextId, now, engine, settingsStatus,
                   pageVars, settingsVars, arg>>

OpsNavigate(page) ==
    /\ res = NoResult
    /\ navClicked(page)
    /\ res' = OpsRecord("navigate", TRUE, TRUE, NoId)
    /\ arg' = arg

OpsEditClick(taskId) ==
    /\ res = NoResult
    /\ editClicked(taskId)
    /\ res' = OpsRecord("editClick", TRUE, TRUE, taskId)
    /\ arg' = arg

OpsCancel ==
    /\ res = NoResult
    /\ cancelClicked
    /\ res' = OpsRecord("cancel", TRUE, TRUE, NoId)
    /\ arg' = arg

OpsEscape ==
    /\ res = NoResult
    /\ escapePressed
    /\ res' = OpsRecord("escape", TRUE, TRUE, NoId)
    /\ arg' = arg

NextOps ==
    \/ OpsInitState
    \/ \E form \in FormInputs, ok \in BOOLEAN : OpsSubmit(form, ok)
    \/ \E i \in 1..Len(tasks), confirmed \in BOOLEAN, ok \in BOOLEAN :
          OpsDelete(tasks[i].id, confirmed, ok)
    \/ \E text \in PickedFiles(tasks), confirmed \in BOOLEAN, ok \in BOOLEAN :
          OpsImport(text, confirmed, ok)
    \/ \E confirmed \in BOOLEAN, cleared \in BOOLEAN, ok \in BOOLEAN :
          OpsClear(confirmed, cleared, ok)
    \/ \E value \in TimeUnits, ok \in BOOLEAN : OpsTimeUnit(value, ok)
    \/ \E input \in CapInputs, ok \in BOOLEAN : OpsSetCap(input, ok)
    \/ \E input \in SearchInputs, caseSensitive \in BOOLEAN : OpsSearch(input, caseSensitive)
    \/ \E value \in SortOptions : OpsSort(value)
    \/ \E page \in Pages : OpsNavigate(page)
    \/ \E i \in 1..Len(tasks) : OpsEditClick(tasks[i].id)
    \/ OpsCancel
    \/ OpsEscape

SpecOps == InitOps /\ [][NextOps]_vars

(***************************************************************************)
(* Properties of the handlers under failing storage (SpecOps)              *)
(***************************************************************************)
\* the text under the key is missing or JSON.parse throws on it
Unreadable(st) == ~st.present \/ ~st.text.parses

\* the values handleFormSubmit hands to addTask and updateTask
SubmittedData(form) ==
    [FormTaskData(form) EXCEPT !.duration = ParseFloat(FormTaskData(form).duration)]

\* the in-memory collection holds what the handler recorded in res makes of
\* the collection it started with
CompletedInMemory ==
    CASE res.op = "add" ->
            /\ Len(tasks) = Len(res.before) + 1
            /\ SubSeq(tasks, 1, Len(res.before)) = res.before
            /\ tasks[Len(tasks)].id = res.id
            /\ tasks[Len(tasks)].title = Trim(SubmittedData(arg).title)
            /\ tasks[Len(tasks)].duration = SubmittedData(arg).duration
            /\ editingTaskId = NoEditing
      [] res.op = "edit" ->
            /\ Len(tasks) = Len(res.before)
            /\ \A i \in 1..Len(tasks) :
                  IF res.before[i].id = res.id /\ i = findIndex(res.before, res.id)
                  THEN /\ tasks[i].id = res.id
                       /\ tasks[i].title = SubmittedData(arg).title
                       /\ tasks[i].duration = SubmittedData(arg).duration
                       /\ tasks[i].dueDate = SubmittedData(arg).dueDate
                       /\ tasks[i].tag = SubmittedData(arg).tag
                  ELSE tasks[i] = res.before[i]
            /\ editingTaskId = NoEditing
      [] res.op = "delete" ->
            /\ ~hasTask(tasks, res.id)
            /\ tasks = SelectSeq(res.before, LAMBDA task : task.id # res.id)

\* C15: a missing or unparseable stored text makes initState yield the empty
\* sequence of tasks, and a failing write leaves localStorage as it was
\* while the add, edit or delete that made it completes in memory.
C15_PersistenceFailuresDegrade ==
    /\ (res.op = "initState" /\ Unreadable(res.beforeStored)) => tasks = <<>>
    /\ (res.op \in {"add", "edit", "delete"} /\ res.confirmed /\ ~res.ok)
          => stored = res.beforeStored /\ CompletedInMemory

\* a confirmed delete whose write failed: the task is gone from memory and
\* localStorage still holds the collection with it
C15_Witness ==
    /\ res.op = "delete" /\ res.confirmed /\ ~res.ok
    /\ Len(tasks) < Len(res.before)
    /\ ~Unreadable(stored)
    /\ loadTasks(stored) = res.before

\* initState on an unparseable text while tasks were held
C15_LoadWitness ==
    /\ res.op = "initState"
    /\ res.beforeStored.present
    /\ ~res.beforeStored.text.parses
    /\ res.before # <<>>
    /\ tasks = <<>>

\* the handlers that change the tasks or the settings
StateOps == {"add", "edit", "delete", "import", "clear", "timeUnit", "setCap"}

\* initState() on this localStorage yields these tasks and these settings
ReloadsAs(st, sst, ts, sets) == loadTasks(st) = ts /\ loadSettings(sst) = sets

\* C19: after a handler that changes the state has completed with its
\* writes succeeding, on a state that localStorage held, initState yields
\* the tasks and the settings of the in-memory state.
C19_ReloadYieldsState ==
    (/\ res.op \in StateOps /\ res.confirmed /\ res.ok
     /\ ReloadsAs(res.beforeStored, res.beforeStoredSettings, res.before, res.beforeSettings))
        => ReloadsAs(stored, storedSettings, tasks, settings)

\* the settings part of C19 after a confirmed clear-all
ClearKeepsSettingsReloadable ==
    (/\ res.op = "clear" /\ res.confirmed /\ res.ok
     /\ ReloadsAs(res.beforeStored, res.beforeStoredSettings, res.before, res.beforeSettings))
        => loadSettings(storedSettings) = settings

\* the tasks part of C19 after a form submission
SubmitKeepsTasksReloadable ==
    (/\ res.op \in {"add", "edit"} /\ res.ok
     /\ ReloadsAs(res.beforeStored, res.beforeStoredSettings, res.before, res.beforeSettings))
        => loadTasks(stored) = tasks

\* the task of this id was held when the handler started and is held no more
Left(id) == hasTask(res.before, id) /\ ~hasTask(tasks, id)

\* C20: a task leaves the collection only by a confirmed delete of its id, a
\* confirmed import of an accepted file, or a confirmed clear-all whose
\* removal from localStorage succeeded; and a search or a sort leaves the
\* collection and its stored text as they were.
C20_TasksLeaveOnlyWhenConfirmed ==
    (res.op \notin {"none", "initState"}) =>
        /\ \A i \in 1..Len(res.before) :
              Left(res.before[i].id) =>
                  \/ res.op = "delete" /\ res.confirmed /\ res.id = res.before[i].id
                  \/ res.op = "import" /\ res.confirmed
                  \/ res.op = "clear" /\ res.confirmed
        /\ res.op \in {"search", "sort"} => tasks = res.before /\ stored = res.beforeStored

\* a confirmed delete took one of two tasks and left the other
C20_Witness ==
    /\ res.op = "delete" /\ res.confirmed
    /\ Len(res.before) = 2
    /\ Left(res.id)
    /\ Len(tasks) = 1

\* a declined delete, a declined import and a declined clear-all left two
\* tasks as they were
C20_DeclinedWitness ==
    /\ res.op \in {"delete", "import", "clear"} /\ ~res.confirmed
    /\ Len(res.before) = 2
    /\ tasks = res.before

====
